---------------------------- MODULE Spec2Model ----------------------------
(***************************************************************************)
(* A model of components of WarpX:                                         *)
(*   - CartesianNodalAlgorithm (stencil coefficients, nodal derivatives),  *)
(*   - InterpolateDensityFineToCoarse (fine-to-coarse restriction),        *)
(*   - PsatdAlgorithmRZ (spectral coefficients of the RZ solver),          *)
(*   - guardCellManager (guard-cell widths),                               *)
(*   - cleanLowEnergyPhotons (removal of low-energy photons).              *)
(*                                                                         *)
(* amrex::Real values are modelled as exact rationals <<n, d>> in lowest   *)
(* terms (d > 0).  The inputs drawn below are small dyadic values, for     *)
(* which binary floating point computes the same results exactly; the      *)
(* rounding of other inputs is not modelled.                               *)
(***************************************************************************)
EXTENDS Integers, Sequences, FiniteSets, TLC

(***************************************************************************)
(* Bounds of the model.                                                    *)
(***************************************************************************)
\* number of valid cells of the field array along each axis with an extent
NCell == 3
\* number of coarse cells along x of the coarse patch the restriction fills
NCoarse == 3

(***************************************************************************)
(* amrex::Real as exact rationals.                                         *)
(***************************************************************************)
Abs(n) == IF n < 0 THEN -n ELSE n

RECURSIVE Gcd(_, _)
Gcd(a, b) == IF b = 0 THEN a ELSE Gcd(b, a % b)

\* the rational n/d in lowest terms with a positive denominator (d # 0)
Rat(n, d) ==
    LET g == Gcd(Abs(n), Abs(d))
        s == IF d < 0 THEN -1 ELSE 1
    IN  << (s * n) \div g, (s * d) \div g >>

RNeg(a)    == << -a[1], a[2] >>
\* the sum over the least common denominator, which keeps the numbers small
RAdd(a, b) ==
    IF a[1] = 0 THEN b
    ELSE IF b[1] = 0 THEN a
    ELSE LET g == Gcd(a[2], b[2])
         IN  Rat(a[1] * (b[2] \div g) + b[1] * (a[2] \div g), (a[2] \div g) * b[2])
RSub(a, b) == RAdd(a, RNeg(b))
RMul(a, b) == IF a[1] = 0 \/ b[1] = 0 THEN << 0, 1 >> ELSE Rat(a[1] * b[1], a[2] * b[2])
RDiv(a, b) == Rat(a[1] * b[2], a[2] * b[1])
RLe(a, b)  == a[1] * b[2] <= b[1] * a[2]

Zero    == Rat(0, 1)
One     == Rat(1, 1)
Half    == Rat(1, 2)
Quarter == Rat(1, 4)
Eighth  == Rat(1, 8)

\* a + b + ... over a sequence of values, left to right
RECURSIVE RSumTo(_, _)
RSumTo(vs, n) == IF n = 1 THEN vs[1] ELSE RAdd(RSumTo(vs, n - 1), vs[n])
RSum(vs) == RSumTo(vs, Len(vs))

(***************************************************************************)
(* State.                                                                  *)
(***************************************************************************)
VARIABLES
    dim,              \* the build's dimensionality: "3D" (WARPX_DIM_3D) or "XZ" (WARPX_DIM_XZ)
    cell_size,        \* std::array<Real,3>: the cell size along x, y, z
    stencil_coefs_x,  \* ManagedVector<Real>: coefficient table along x
    stencil_coefs_y,  \* ManagedVector<Real>: coefficient table along y
    stencil_coefs_z,  \* ManagedVector<Real>: coefficient table along z
    coefs_ready,      \* InitializeStencilCoefficients has run on the tables
    F,                \* Array4<Real>: the field, a function on its index box
    ret,              \* the call in progress and the value it returned
    spacedim,         \* AMREX_SPACEDIM of the build: 2 or 3
    m_fine,           \* Array4<Real const>: [begin, end, ncomp, p]
    m_coarse,         \* Array4<Real>: the coarse elements <<i,j,k,m>> -> value
    m_refinement_ratio,
    m_number_of_components,
    pc,               \* per invocation operator()(i,j,k): its loop index m
    fine_reads,       \* the elements fine_unsafe(j,k,l,m) was evaluated at
    lin,              \* the inputs m_fine was made of: a * f1 + b * f2
    args,             \* the arguments the constructor is called with
    amrex_debug,      \* the build defines AMREX_DEBUG or AMREX_USE_ASSERTION
    run,              \* "constructing", "running" or "aborted"
    coefficients_initialized,  \* PsatdAlgorithmRZ: bool
    dt,               \* PsatdAlgorithmRZ: the time step saved by the constructor
    C_coef,           \* PsatdAlgorithmRZ: SpectralCoefficients, one entry per mode
    S_ck_coef,
    X1_coef,
    X2_coef,
    X3_coef,
    modified_kz_vec,  \* SpectralBaseAlgorithmRZ: the modified k vector along z
    field_data,       \* the SpectralFieldDataRZ objects: the pushes applied to each
    divE,             \* the MultiFab ComputeSpectralDivE last filled
    sret,             \* the last call on the algorithm and what it returned
    init_calls,       \* the arguments of the calls of InitializeSpectralCoefficients
    ng_alloc_EB,      \* guardCellManager: IntVect, one component per axis
    ng_alloc_J,
    ng_alloc_Rho,
    ng_alloc_F,
    ng_FieldSolver,
    ng_FieldSolverF,
    ng_FieldGather,
    ng_UpdateAux,
    ng_MovingWindow,
    ng_Extra,
    options,          \* the configuration guardCellManager::Init is called with
    planned,          \* guardCellManager::Init has run
    ptile,            \* the particle tile: [id, ux, uy, uz], each indexed from 0
    ptile_in,         \* the tile as cleanLowEnergyPhotons was called with it
    old_size,         \* arguments of cleanLowEnergyPhotons
    num_added,
    energy_threshold,
    ip_done           \* the indices ip whose ParallelFor iteration has run

nodalVars == << dim, cell_size, stencil_coefs_x, stencil_coefs_y,
                stencil_coefs_z, coefs_ready, F, ret >>

restrictVars == << spacedim, m_fine, m_coarse, m_refinement_ratio,
                   m_number_of_components, pc, fine_reads, lin,
                   args, amrex_debug, run >>

spectralVars == << coefficients_initialized, dt, C_coef, S_ck_coef, X1_coef,
                   X2_coef, X3_coef, modified_kz_vec, field_data, divE, sret,
                   init_calls >>

guardVars == << ng_alloc_EB, ng_alloc_J, ng_alloc_Rho, ng_alloc_F,
                ng_FieldSolver, ng_FieldSolverF, ng_FieldGather, ng_UpdateAux,
                ng_MovingWindow, ng_Extra, options, planned >>

photonVars == << ptile, ptile_in, old_size, num_added, energy_threshold, ip_done >>

vars == << nodalVars, restrictVars, spectralVars, guardVars, photonVars >>

\* cleanLowEnergyPhotons is not called
PhotonsUnused ==
    /\ ptile = << >>
    /\ ptile_in = << >>
    /\ old_size = 0
    /\ num_added = 0
    /\ energy_threshold = << 0, 1 >>
    /\ ip_done = {}

\* (a variant: a member left without its initialiser holds any value)
IndeterminateVector == << -1, 0, 7 >>

\* IntVect::TheZeroVector()
TheZeroVector == << 0, 0, 0 >>

\* a guardCellManager that is not used: as constructed, Init never called
GuardCellsUnused ==
    /\ ng_alloc_EB = TheZeroVector
    /\ ng_alloc_J = TheZeroVector
    /\ ng_alloc_Rho = TheZeroVector
    /\ ng_alloc_F = TheZeroVector
    /\ ng_FieldSolver = TheZeroVector
    /\ ng_FieldSolverF = TheZeroVector
    /\ ng_FieldGather = TheZeroVector
    /\ ng_UpdateAux = TheZeroVector
    /\ ng_MovingWindow = TheZeroVector
    /\ ng_Extra = TheZeroVector
    /\ options = << >>
    /\ planned = FALSE

\* no spectral algorithm exists
SpectralUnused ==
    /\ coefficients_initialized = FALSE
    /\ dt = << 0, 1 >>
    /\ C_coef = << >>
    /\ S_ck_coef = << >>
    /\ X1_coef = << >>
    /\ X2_coef = << >>
    /\ X3_coef = << >>
    /\ modified_kz_vec = << >>
    /\ field_data = << >>
    /\ divE = << >>
    /\ sret = << >>
    /\ init_calls = << >>

(***************************************************************************)
(* The field array: Array4 indices (i,j,k).  In 3-D the three indices are  *)
(* x, y, z.  In the XZ build the array is two-dimensional: the first index *)
(* is x, the second is z and the third is always 0.  The array holds the   *)
(* valid cells 0..NCell-1 and one guard cell on each side of every axis    *)
(* with an extent.                                                         *)
(***************************************************************************)
Dims == {"3D", "XZ"}

ValidRange == 0 .. (NCell - 1)
BoxRange   == -1 .. NCell

Valid(d) == IF d = "3D" THEN ValidRange \X ValidRange \X ValidRange
                        ELSE ValidRange \X ValidRange \X {0}
Box(d)   == IF d = "3D" THEN BoxRange \X BoxRange \X BoxRange
                        ELSE BoxRange \X BoxRange \X {0}

\* Array4::operator()(i,j,k)
At(A, i, j, k) == A[<<i, j, k>>]

(***************************************************************************)
(* CartesianNodalAlgorithm.                                                *)
(***************************************************************************)
\* ManagedVector::resize(n): keeps the first n elements, fills with zeros
Resize(v, n) == [p \in 1..n |-> IF p <= Len(v) THEN v[p] ELSE Zero]

\* v[0] = x on a vector (0-based in the code, 1-based here)
SetFirst(v, x) == [v EXCEPT ![1] = x]

\* (a variant that stores the inverse cell size of x in every table)
InitCoefsAllFromX(cs, old, axis) == SetFirst(Resize(old, 1), RDiv(One, cs[1]))

\* the table of axis `axis` (0, 1, 2) after InitializeStencilCoefficients
InitCoefs(cs, old, axis) == SetFirst(Resize(old, 1), RDiv(One, cs[axis + 1]))

\* (variants: the one-sided differences of a staggered grid)
UpwardDxStaggered(A, coefs_x, n_coefs_x, i, j, k) ==
    RMul(coefs_x[1], RSub(At(A, i + 1, j, k), At(A, i, j, k)))

UpwardDx(A, coefs_x, n_coefs_x, i, j, k) ==
    LET inv_dx == coefs_x[1]
    IN  RMul(RMul(Half, inv_dx), RSub(At(A, i + 1, j, k), At(A, i - 1, j, k)))

DownwardDxStaggered(A, coefs_x, n_coefs_x, i, j, k) ==
    RMul(coefs_x[1], RSub(At(A, i, j, k), At(A, i - 1, j, k)))

DownwardDx(A, coefs_x, n_coefs_x, i, j, k) ==
    UpwardDx(A, coefs_x, n_coefs_x, i, j, k)

UpwardDy(A, coefs_y, n_coefs_y, i, j, k) ==
    IF dim = "3D"
    THEN LET inv_dy == coefs_y[1]
         IN  RMul(RMul(Half, inv_dy), RSub(At(A, i, j + 1, k), At(A, i, j - 1, k)))
    ELSE Zero

DownwardDy(A, coefs_y, n_coefs_y, i, j, k) ==
    UpwardDy(A, coefs_y, n_coefs_y, i, j, k)

\* (a variant that differences along the first array index in the XZ build)
UpwardDzAlongFirstIndex(A, coefs_z, n_coefs_z, i, j, k) ==
    LET inv_dz == coefs_z[1]
    IN  IF dim = "3D"
        THEN RMul(RMul(Half, inv_dz), RSub(At(A, i, j, k + 1), At(A, i, j, k - 1)))
        ELSE RMul(RMul(Half, inv_dz), RSub(At(A, i + 1, j, k), At(A, i - 1, j, k)))

UpwardDz(A, coefs_z, n_coefs_z, i, j, k) ==
    LET inv_dz == coefs_z[1]
    IN  IF dim = "3D"
        THEN RMul(RMul(Half, inv_dz), RSub(At(A, i, j, k + 1), At(A, i, j, k - 1)))
        ELSE RMul(RMul(Half, inv_dz), RSub(At(A, i, j + 1, k), At(A, i, j - 1, k)))

DownwardDz(A, coefs_z, n_coefs_z, i, j, k) ==
    UpwardDz(A, coefs_z, n_coefs_z, i, j, k)

(***************************************************************************)
(* Inputs.                                                                 *)
(***************************************************************************)
CellSizes ==
    { << Rat(1, 8), Rat(1, 8), Rat(1, 8) >>,
      << Rat(1, 2), Rat(1, 4), Rat(2, 1) >>,
      << Rat(1, 1), Rat(4, 1), Rat(1, 8) >> }

\* what a table may hold before InitializeStencilCoefficients
OldTables ==
    { [x |-> << >>, y |-> << >>, z |-> << >>],
      [x |-> << Rat(7, 1) >>, y |-> << Rat(1, 2) >>, z |-> << Rat(3, 1) >>],
      [x |-> << Rat(3, 2), Rat(5, 1) >>, y |-> << Rat(2, 1), Rat(9, 1) >>,
       z |-> << Rat(1, 4), Rat(6, 1) >>] }

\* zero everywhere except 1 in the cell c
DeltaField(d, c) == [p \in Box(d) |-> IF p = c THEN One ELSE Zero]

\* F(x) = x^2 sampled at x = i*dx
QuadField(d, cs) ==
    [p \in Box(d) |-> RMul(RMul(Rat(p[1], 1), cs[1]), RMul(Rat(p[1], 1), cs[1]))]

\* a field with no symmetry along any axis
CubicField(d) ==
    [p \in Box(d) |->
        Rat(p[1] * p[1] * p[1] + 2 * p[2] * p[2] * p[2] + 3 * p[3] * p[3] * p[3]
              + p[1] * p[2] + 5 * p[2] * p[3] + 7 * p[1] + 11 * p[2], 4)]

UniformField(d, v) == [p \in Box(d) |-> v]

\* the cells of one line along x that hold the impulse of a DeltaField
DeltaCells(d) == { c \in Valid(d) : c[2] = 1 /\ c[3] = (IF d = "3D" THEN 1 ELSE 0) }

Fields(d, cs) ==
    { DeltaField(d, c) : c \in DeltaCells(d) }
      \cup { QuadField(d, cs), CubicField(d), UniformField(d, Rat(5, 1)) }

NoRet == [fn |-> "none"]

DerivativeNames ==
    {"UpwardDx", "DownwardDx", "UpwardDy", "DownwardDy", "UpwardDz", "DownwardDz"}

\* no restriction operator exists
RestrictionUnused ==
    /\ spacedim = 3
    /\ m_fine = [begin |-> <<0, 0, 0>>, end |-> <<0, 0, 0>>, ncomp |-> 0, p |-> << >>]
    /\ m_coarse = << >>
    /\ m_refinement_ratio = 2
    /\ m_number_of_components = 0
    /\ pc = << >>
    /\ fine_reads = {}
    /\ lin = << >>
    /\ args = << >>
    /\ amrex_debug = FALSE
    /\ run = "constructing"

InitNodal ==
    /\ dim \in Dims
    /\ cell_size \in CellSizes
    /\ \E t \in OldTables :
          /\ stencil_coefs_x = t.x
          /\ stencil_coefs_y = t.y
          /\ stencil_coefs_z = t.z
    /\ coefs_ready = FALSE
    /\ F \in Fields(dim, cell_size)
    /\ ret = NoRet
    /\ RestrictionUnused
    /\ SpectralUnused
    /\ GuardCellsUnused
    /\ PhotonsUnused

(***************************************************************************)
(* Actions.                                                                *)
(***************************************************************************)
InitializeStencilCoefficients ==
    /\ ret = NoRet
    /\ stencil_coefs_x' = InitCoefs(cell_size, stencil_coefs_x, 0)
    /\ stencil_coefs_y' = InitCoefs(cell_size, stencil_coefs_y, 1)
    /\ stencil_coefs_z' = InitCoefs(cell_size, stencil_coefs_z, 2)
    /\ coefs_ready' = TRUE
    /\ UNCHANGED << dim, cell_size, F, ret, restrictVars, spectralVars, guardVars, photonVars >>

\* The value returned by the derivative `fn` of the field A at (i,j,k)
DerivativeOn(A, fn, i, j, k) ==
    CASE fn = "UpwardDx"   -> UpwardDx(A, stencil_coefs_x, Len(stencil_coefs_x), i, j, k)
      [] fn = "DownwardDx" -> DownwardDx(A, stencil_coefs_x, Len(stencil_coefs_x), i, j, k)
      [] fn = "UpwardDy"   -> UpwardDy(A, stencil_coefs_y, Len(stencil_coefs_y), i, j, k)
      [] fn = "DownwardDy" -> DownwardDy(A, stencil_coefs_y, Len(stencil_coefs_y), i, j, k)
      [] fn = "UpwardDz"   -> UpwardDz(A, stencil_coefs_z, Len(stencil_coefs_z), i, j, k)
      [] fn = "DownwardDz" -> DownwardDz(A, stencil_coefs_z, Len(stencil_coefs_z), i, j, k)

\* The value returned by the derivative `fn` of the field F at (i,j,k)
Derivative(fn, i, j, k) == DerivativeOn(F, fn, i, j, k)

\* the table the derivative `fn` is given
CoefsOf(fn) ==
    CASE fn \in {"UpwardDx", "DownwardDx"} -> stencil_coefs_x
      [] fn \in {"UpwardDy", "DownwardDy"} -> stencil_coefs_y
      [] fn \in {"UpwardDz", "DownwardDz"} -> stencil_coefs_z

\* whether `fn` reads entry 0 of its table
ReadsCoefs(fn) == ~(dim = "XZ" /\ fn \in {"UpwardDy", "DownwardDy"})

\* A per-cell kernel evaluates one derivative at a valid cell; the table
\* entry it reads must exist.
CallDerivative ==
    /\ ret = NoRet
    /\ \E fn \in DerivativeNames : \E c \in Valid(dim) :
          /\ ReadsCoefs(fn) => Len(CoefsOf(fn)) >= 1
          /\ ret' = [fn |-> fn, i |-> c[1], j |-> c[2], k |-> c[3],
                     val |-> Derivative(fn, c[1], c[2], c[3])]
    /\ UNCHANGED << dim, cell_size, stencil_coefs_x, stencil_coefs_y,
                    stencil_coefs_z, coefs_ready, F, restrictVars, spectralVars, guardVars, photonVars >>

\* the caller takes the returned value
Return ==
    /\ ret # NoRet
    /\ ret' = NoRet
    /\ UNCHANGED << dim, cell_size, stencil_coefs_x, stencil_coefs_y,
                    stencil_coefs_z, coefs_ready, F, restrictVars, spectralVars, guardVars, photonVars >>

NextNodal ==
    \/ InitializeStencilCoefficients
    \/ CallDerivative
    \/ Return

SpecNodal == InitNodal /\ [][NextNodal]_vars

(***************************************************************************)
(* InterpolateDensityFineToCoarse.                                         *)
(*                                                                         *)
(* An Array4 is [begin, end, ncomp, p]: the index box begin <= (i,j,k) <   *)
(* end, the number of components and the elements p[<<i,j,k,m>>].  In a    *)
(* two-dimensional build the third index of every array is 0.              *)
(***************************************************************************)
\* the components the arrays are allocated with
Comps == {0, 1}

\* the numbers of components an operator is constructed with
ComponentCounts == {1, 2}

\* the cells of the box begin <= (i,j,k) < end
Cells(begin, end) ==
    (begin[1] .. (end[1] - 1)) \X (begin[2] .. (end[2] - 1)) \X (begin[3] .. (end[3] - 1))

Elements(begin, end) == { <<c[1], c[2], c[3], m>> : c \in Cells(begin, end), m \in Comps }

\* Array4::contains(i,j,k)
Contains(A, i, j, k) ==
    /\ i >= A.begin[1] /\ i < A.end[1]
    /\ j >= A.begin[2] /\ j < A.end[2]
    /\ k >= A.begin[3] /\ k < A.end[3]

\* what an out-of-bounds read of fine_unsafe may return
Garbage == Rat(13, 1)

\* (a variant that reads fine_unsafe without the bounds check)
FineUnchecked(fine_unsafe, j, k, l, m) ==
    [val  |-> IF <<j, k, l, m>> \in DOMAIN fine_unsafe.p
                 THEN fine_unsafe.p[<<j, k, l, m>>] ELSE Garbage,
     read |-> {<<j, k, l, m>>}]

\* (a variant that pads with one instead of zero beyond the box)
FinePadOne(fine_unsafe, j, k, l, m) ==
    IF Contains(fine_unsafe, j, k, l)
    THEN [val |-> fine_unsafe.p[<<j, k, l, m>>], read |-> {<<j, k, l, m>>}]
    ELSE [val |-> One, read |-> {}]

\* the lambda `fine`: the value it returns and the elements of fine_unsafe
\* it evaluates
fine(fine_unsafe, j, k, l, m) ==
    IF Contains(fine_unsafe, j, k, l)
    THEN [val |-> fine_unsafe.p[<<j, k, l, m>>], read |-> {<<j, k, l, m>>}]
    ELSE [val |-> Zero, read |-> {}]

\* the values of the lambda at a sequence of points
Vals(fu, pts, m) == [n \in 1..Len(pts) |-> fine(fu, pts[n][1], pts[n][2], pts[n][3], m).val]

\* the stencil points in the order of the code: the coincident fine cell, then
\* the groups weighted 0.5, 0.25 and (in 3-D) 0.125
Center(ii, jj, kk) == << <<ii, jj, kk>> >>

Faces2D(ii, jj, kk) ==
    << <<ii - 1, jj, kk>>, <<ii + 1, jj, kk>>,
       <<ii, jj - 1, kk>>, <<ii, jj + 1, kk>> >>

Corners2D(ii, jj, kk) ==
    << <<ii - 1, jj - 1, kk>>, <<ii + 1, jj - 1, kk>>,
       <<ii - 1, jj + 1, kk>>, <<ii + 1, jj + 1, kk>> >>

Faces3D(ii, jj, kk) ==
    << <<ii - 1, jj, kk>>, <<ii + 1, jj, kk>>,
       <<ii, jj - 1, kk>>, <<ii, jj + 1, kk>>,
       <<ii, jj, kk - 1>>, <<ii, jj, kk + 1>> >>

Edges3D(ii, jj, kk) ==
    << <<ii - 1, jj - 1, kk>>, <<ii + 1, jj - 1, kk>>,
       <<ii - 1, jj + 1, kk>>, <<ii + 1, jj + 1, kk>>,
       <<ii - 1, jj, kk - 1>>, <<ii + 1, jj, kk - 1>>,
       <<ii - 1, jj, kk + 1>>, <<ii + 1, jj, kk + 1>>,
       <<ii, jj - 1, kk - 1>>, <<ii, jj + 1, kk - 1>>,
       <<ii, jj - 1, kk + 1>>, <<ii, jj + 1, kk + 1>> >>

Corners3D(ii, jj, kk) ==
    << <<ii - 1, jj - 1, kk - 1>>, <<ii - 1, jj - 1, kk + 1>>,
       <<ii - 1, jj + 1, kk - 1>>, <<ii - 1, jj + 1, kk + 1>>,
       <<ii + 1, jj - 1, kk - 1>>, <<ii + 1, jj - 1, kk + 1>>,
       <<ii + 1, jj + 1, kk - 1>>, <<ii + 1, jj + 1, kk + 1>> >>

StencilPoints(sd, ii, jj, kk) ==
    IF sd = 2
    THEN Center(ii, jj, kk) \o Faces2D(ii, jj, kk) \o Corners2D(ii, jj, kk)
    ELSE Center(ii, jj, kk) \o Faces3D(ii, jj, kk) \o Edges3D(ii, jj, kk)
           \o Corners3D(ii, jj, kk)

\* (a variant whose 3-D stencil is scaled by 0.25, as the 2-D one is)
StencilValueScaledAs2D(sd, fu, ii, jj, kk, m) ==
    IF sd = 2
    THEN RMul(Quarter,
            RAdd(RAdd(RSum(Vals(fu, Center(ii, jj, kk), m)),
                      RMul(Half, RSum(Vals(fu, Faces2D(ii, jj, kk), m)))),
                 RMul(Quarter, RSum(Vals(fu, Corners2D(ii, jj, kk), m)))))
    ELSE RMul(Quarter,
            RAdd(RAdd(RAdd(RSum(Vals(fu, Center(ii, jj, kk), m)),
                           RMul(Half, RSum(Vals(fu, Faces3D(ii, jj, kk), m)))),
                      RMul(Quarter, RSum(Vals(fu, Edges3D(ii, jj, kk), m)))),
                 RMul(Eighth, RSum(Vals(fu, Corners3D(ii, jj, kk), m)))))

\* (a variant that weights the corner group like the face group)
StencilValueCornersAsFaces(sd, fu, ii, jj, kk, m) ==
    IF sd = 2
    THEN RMul(Quarter,
            RAdd(RAdd(RSum(Vals(fu, Center(ii, jj, kk), m)),
                      RMul(Half, RSum(Vals(fu, Faces2D(ii, jj, kk), m)))),
                 RMul(Half, RSum(Vals(fu, Corners2D(ii, jj, kk), m)))))
    ELSE RMul(Eighth,
            RAdd(RAdd(RAdd(RSum(Vals(fu, Center(ii, jj, kk), m)),
                           RMul(Half, RSum(Vals(fu, Faces3D(ii, jj, kk), m)))),
                      RMul(Quarter, RSum(Vals(fu, Edges3D(ii, jj, kk), m)))),
                 RMul(Half, RSum(Vals(fu, Corners3D(ii, jj, kk), m)))))

\* the value operator() stores for component m, from the fine cell (ii,jj,kk)
StencilValue(sd, fu, ii, jj, kk, m) ==
    IF sd = 2
    THEN RMul(Quarter,
            RAdd(RAdd(RSum(Vals(fu, Center(ii, jj, kk), m)),
                      RMul(Half, RSum(Vals(fu, Faces2D(ii, jj, kk), m)))),
                 RMul(Quarter, RSum(Vals(fu, Corners2D(ii, jj, kk), m)))))
    ELSE RMul(Eighth,
            RAdd(RAdd(RAdd(RSum(Vals(fu, Center(ii, jj, kk), m)),
                           RMul(Half, RSum(Vals(fu, Faces3D(ii, jj, kk), m)))),
                      RMul(Quarter, RSum(Vals(fu, Edges3D(ii, jj, kk), m)))),
                 RMul(Eighth, RSum(Vals(fu, Corners3D(ii, jj, kk), m)))))

\* the elements of fine_unsafe one evaluation of the stencil reads
StencilReads(sd, fu, ii, jj, kk, m) ==
    LET pts == StencilPoints(sd, ii, jj, kk)
    IN  UNION { fine(fu, pts[n][1], pts[n][2], pts[n][3], m).read : n \in 1..Len(pts) }

\* the coarse cell operator()(i,j,k) stores into: coarse(i,j,kk,m) in the
\* two-dimensional build, coarse(i,j,k,m) in the three-dimensional one
CoarseIndex(sd, i, j, k, kk) == IF sd = 2 THEN <<i, j, kk>> ELSE <<i, j, k>>

\* (a variant that adds to the coarse element instead of overwriting it)
StoreAccumulating(old, val) == RAdd(old, val)

\* the new value of the coarse element: an assignment
Store(old, val) == val

(***************************************************************************)
(* Inputs of the restriction.                                              *)
(***************************************************************************)
\* the coarse patch the kernel is launched over
CoarseBegin == <<0, 0, 0>>
CoarseEnd   == <<NCoarse, 1, 1>>
CoarseCells == Cells(CoarseBegin, CoarseEnd)

\* the fine patches: the refined coarse patch (ratio 2, nodal) without guard
\* cells, with one guard cell on every side, and with guard cells on some
\* sides only
FineBoxes(sd) ==
    LET hx == 2 * (NCoarse - 1)
        zb(g) == IF sd = 2 THEN 0 ELSE -g
        ze(g) == IF sd = 2 THEN 1 ELSE 1 + g
    IN  { [begin |-> <<0, 0, zb(0)>>,   end |-> <<hx + 1, 1, ze(0)>>],
          [begin |-> <<-1, -1, zb(1)>>, end |-> <<hx + 2, 2, ze(1)>>],
          [begin |-> <<-1, -1, zb(1)>>, end |-> <<hx + 1, 2, ze(1)>>] }

UniformData(b, v) == [e \in Elements(b.begin, b.end) |-> v]

\* 1 in the cell q (every component), 0 elsewhere
DeltaData(b, q) ==
    [e \in Elements(b.begin, b.end) |-> IF <<e[1], e[2], e[3]>> = q THEN One ELSE Zero]

\* values with no symmetry along any axis, different in each component
GenericData(b) ==
    [e \in Elements(b.begin, b.end) |->
        Rat(e[1] * e[1] * e[1] + 2 * e[2] * e[2] + 3 * e[3] + e[1] * e[2]
              + 5 * e[2] * e[3] + 7 * e[4] * e[1] + e[4] + 1, 1)]

FieldPairs(b) ==
    { << UniformData(b, Rat(5, 1)), GenericData(b) >>,
      << DeltaData(b, <<0, 0, 0>>), DeltaData(b, <<1, 0, 0>>) >>,
      << GenericData(b), DeltaData(b, <<1, 0, 0>>) >>,
      << UniformData(b, Rat(5, 1)), UniformData(b, Rat(-1, 1)) >> }

Scalars ==
    { << One, Zero >>, << Zero, One >>, << Rat(2, 1), Rat(-3, 1) >>,
      << Rat(1, 2), Rat(3, 2) >> }

\* a * f1 + b * f2, element by element
Combine(a, f1, b, f2) ==
    [e \in DOMAIN f1 |-> RAdd(RMul(a, f1[e]), RMul(b, f2[e]))]

\* what the coarse array holds before the kernel runs
Stale == Rat(9, 1)

NodalUnused ==
    /\ dim = "3D"
    /\ cell_size = << One, One, One >>
    /\ stencil_coefs_x = << >>
    /\ stencil_coefs_y = << >>
    /\ stencil_coefs_z = << >>
    /\ coefs_ready = FALSE
    /\ F = << >>
    /\ ret = NoRet

\* The state after the operator is constructed on a fine and a coarse array,
\* before the kernel that invokes it once per coarse cell runs.
InitRestrict ==
    /\ NodalUnused
    /\ SpectralUnused
    /\ GuardCellsUnused
    /\ PhotonsUnused
    /\ spacedim \in {2, 3}
    /\ m_refinement_ratio = 2
    /\ m_number_of_components \in ComponentCounts
    /\ \E b \in FineBoxes(spacedim) : \E fp \in FieldPairs(b) : \E ab \in Scalars :
          /\ lin = [a |-> ab[1], b |-> ab[2], f1 |-> fp[1], f2 |-> fp[2]]
          /\ m_fine = [begin |-> b.begin, end |-> b.end, ncomp |-> Cardinality(Comps),
                       p |-> Combine(ab[1], fp[1], ab[2], fp[2])]
    /\ m_coarse = [e \in Elements(CoarseBegin, CoarseEnd) |-> Stale]
    /\ pc = [c \in CoarseCells |-> 0]
    /\ fine_reads = {}
    /\ args = [fine |-> m_fine, coarse |-> m_coarse,
               refinement_ratio |-> m_refinement_ratio,
               number_of_components |-> m_number_of_components]
    /\ amrex_debug \in BOOLEAN
    /\ run = "running"

\* (a variant that runs over the components the arrays are allocated with)
LoopConditionAllComponents(m, number_of_components) == m < Cardinality(Comps)

\* the loop condition of the loop over the components
LoopCondition(m, number_of_components) == m < number_of_components

\* One iteration of the loop over m of the invocation operator()(i,j,k).
OperatorStep(i, j, k) ==
    LET m  == pc[<<i, j, k>>]
        ii == i * m_refinement_ratio
        jj == j * m_refinement_ratio
        kk == k * m_refinement_ratio
        at == CoarseIndex(spacedim, i, j, k, kk)
        e  == <<at[1], at[2], at[3], m>>
    IN  /\ run = "running"
        /\ LoopCondition(m, m_number_of_components)
        /\ m_coarse' = [m_coarse EXCEPT
                           ![e] = Store(@, StencilValue(spacedim, m_fine, ii, jj, kk, m))]
        /\ fine_reads' = fine_reads \cup StencilReads(spacedim, m_fine, ii, jj, kk, m)
        /\ pc' = [pc EXCEPT ![<<i, j, k>>] = m + 1]
        /\ UNCHANGED << spacedim, m_fine, m_refinement_ratio,
                        m_number_of_components, lin, args, amrex_debug, run,
                        nodalVars, spectralVars, guardVars, photonVars >>

NextRestrict == \E c \in CoarseCells : OperatorStep(c[1], c[2], c[3])

SpecRestrict == InitRestrict /\ [][NextRestrict]_vars

(***************************************************************************)
(* The construction of the operator.                                       *)
(***************************************************************************)
\* the refinement ratios a caller may pass
Ratios == {1, 2, 3, 4}

\* BL_ASSERT(EX): whether the run continues past the assertion.  The macro
\* expands to the check of EX, which aborts the run when EX is false, in a
\* build that defines AMREX_DEBUG or AMREX_USE_ASSERTION, and to ((void)0)
\* in every other build.
BL_ASSERT(EX) == amrex_debug => EX

\* The state before the constructor runs: the arguments are chosen, the
\* members hold nothing and no invocation has started.
InitConstruct ==
    /\ NodalUnused
    /\ SpectralUnused
    /\ GuardCellsUnused
    /\ PhotonsUnused
    /\ spacedim \in {2, 3}
    /\ amrex_debug \in BOOLEAN
    /\ \E b \in FineBoxes(spacedim) : \E r \in Ratios : \E n \in ComponentCounts :
          /\ args = [fine |-> [begin |-> b.begin, end |-> b.end,
                               ncomp |-> Cardinality(Comps), p |-> GenericData(b)],
                     coarse |-> [e \in Elements(CoarseBegin, CoarseEnd) |-> Stale],
                     refinement_ratio |-> r,
                     number_of_components |-> n]
          /\ lin = [a |-> One, b |-> Zero, f1 |-> GenericData(b), f2 |-> GenericData(b)]
    /\ m_fine = [begin |-> <<0, 0, 0>>, end |-> <<0, 0, 0>>, ncomp |-> 0, p |-> << >>]
    /\ m_coarse = << >>
    /\ m_refinement_ratio = 0
    /\ m_number_of_components = 0
    /\ pc = [c \in CoarseCells |-> 0]
    /\ fine_reads = {}
    /\ run = "constructing"

\* The constructor: the member initialisers, then the assertion of its body.
Construct ==
    /\ run = "constructing"
    /\ m_fine' = args.fine
    /\ m_coarse' = args.coarse
    /\ m_refinement_ratio' = args.refinement_ratio
    /\ m_number_of_components' = args.number_of_components
    /\ run' = IF BL_ASSERT(args.refinement_ratio = 2) THEN "running" ELSE "aborted"
    /\ UNCHANGED << spacedim, pc, fine_reads, lin, args, amrex_debug, nodalVars,
                    spectralVars, guardVars, photonVars >>

NextConstruct ==
    \/ Construct
    \/ NextRestrict

SpecConstruct == InitConstruct /\ [][NextConstruct]_vars

(***************************************************************************)
(* PsatdAlgorithmRZ.                                                       *)
(*                                                                         *)
(* The header declares the class; the bodies of its constructor, of        *)
(* InitializeSpectralCoefficients and of pushSpectralFields, and of        *)
(* ComputeSpectralDivE of the base class, are modelled from the design     *)
(* description of the spectral field algorithm.  A coefficient is kept as  *)
(* the expression it is computed from.                                     *)
(***************************************************************************)
\* the number of calls of InitializeSpectralCoefficients followed
MaxInitCalls == 2
\* the number of pushes followed on each field data object
MaxPush == 2

\* the SpectralFieldDataRZ objects and the kr values, one per mode, each carries
FieldDatas == {"f1", "f2"}
KrOf(f) == IF f = "f1" THEN << Rat(1, 1), Rat(2, 1) >> ELSE << Rat(1, 1), Rat(3, 1) >>

TimeSteps == { Rat(1, 2), Rat(1, 4) }

\* getModifiedKComponent(dm, 1, norder_z, nodal)
ModifiedKComponent(norder_z, nodal) == [norder_z |-> norder_z, nodal |-> nodal]

\* SpectralFieldIndex::n_fields
n_fields == "SpectralFieldIndex::n_fields"

\* the coefficient `name` of one mode: C = cos(c k dt), S_ck = sin(c k dt)/(c k),
\* X1, X2, X3 derived from them, with k made of the modified kz and of kr
Coefficient(name, kz, kr, dt_step) ==
    [coef |-> name, kz |-> kz, kr |-> kr, dt |-> dt_step]

CoefficientTable(name, kz, f, dt_step) ==
    [m \in 1..Len(KrOf(f)) |-> Coefficient(name, kz, KrOf(f)[m], dt_step)]

\* (a variant that computes the table on every call)
TableAfterInitAlways(initialized, old, new) == new

\* a table after InitializeSpectralCoefficients: computed on the first call,
\* left alone once the coefficients are initialised
TableAfterInit(initialized, old, new) == IF initialized THEN old ELSE new

NoCall == [fn |-> "none"]

\* The state after the constructor.
InitSpectral ==
    /\ NodalUnused
    /\ RestrictionUnused
    /\ GuardCellsUnused
    /\ PhotonsUnused
    /\ coefficients_initialized = FALSE
    /\ dt \in TimeSteps
    /\ C_coef = << >>
    /\ S_ck_coef = << >>
    /\ X1_coef = << >>
    /\ X2_coef = << >>
    /\ X3_coef = << >>
    /\ \E nodal \in BOOLEAN : modified_kz_vec = ModifiedKComponent(2, nodal)
    /\ field_data = [f \in FieldDatas |-> 0]
    /\ divE = << >>
    /\ sret = NoCall
    /\ init_calls = << >>

InitializeSpectralCoefficients(f) ==
    /\ Len(init_calls) < MaxInitCalls
    /\ C_coef' = TableAfterInit(coefficients_initialized, C_coef,
                      CoefficientTable("C", modified_kz_vec, f, dt))
    /\ S_ck_coef' = TableAfterInit(coefficients_initialized, S_ck_coef,
                      CoefficientTable("S_ck", modified_kz_vec, f, dt))
    /\ X1_coef' = TableAfterInit(coefficients_initialized, X1_coef,
                      CoefficientTable("X1", modified_kz_vec, f, dt))
    /\ X2_coef' = TableAfterInit(coefficients_initialized, X2_coef,
                      CoefficientTable("X2", modified_kz_vec, f, dt))
    /\ X3_coef' = TableAfterInit(coefficients_initialized, X3_coef,
                      CoefficientTable("X3", modified_kz_vec, f, dt))
    /\ coefficients_initialized' = TRUE
    /\ init_calls' = Append(init_calls, f)
    /\ sret' = [fn |-> "InitializeSpectralCoefficients"]
    /\ UNCHANGED << dt, modified_kz_vec, field_data, divE, nodalVars, restrictVars, guardVars, photonVars >>

\* updates E and B of f in place from the coefficients, which must be ready
pushSpectralFields(f) ==
    /\ coefficients_initialized
    /\ field_data[f] < MaxPush
    /\ field_data' = [field_data EXCEPT ![f] = @ + 1]
    /\ sret' = [fn |-> "pushSpectralFields"]
    /\ UNCHANGED << coefficients_initialized, dt, C_coef, S_ck_coef, X1_coef,
                    X2_coef, X3_coef, modified_kz_vec, divE, init_calls,
                    nodalVars, restrictVars, guardVars, photonVars >>

getRequiredNumberOfFields ==
    /\ sret' = [fn |-> "getRequiredNumberOfFields", val |-> n_fields]
    /\ UNCHANGED << coefficients_initialized, dt, C_coef, S_ck_coef, X1_coef,
                    X2_coef, X3_coef, modified_kz_vec, field_data, divE,
                    init_calls, nodalVars, restrictVars, guardVars, photonVars >>

\* fills divE from the E of f and the modified wavenumbers
ComputeSpectralDivE(f) ==
    /\ divE' = [of |-> f, pushes |-> field_data[f], kz |-> modified_kz_vec]
    /\ sret' = [fn |-> "ComputeSpectralDivE"]
    /\ UNCHANGED << coefficients_initialized, dt, C_coef, S_ck_coef, X1_coef,
                    X2_coef, X3_coef, modified_kz_vec, field_data, init_calls,
                    nodalVars, restrictVars, guardVars, photonVars >>

NextSpectral ==
    \/ \E f \in FieldDatas : InitializeSpectralCoefficients(f)
    \/ \E f \in FieldDatas : pushSpectralFields(f)
    \/ getRequiredNumberOfFields
    \/ \E f \in FieldDatas : ComputeSpectralDivE(f)

SpecSpectral == InitSpectral /\ [][NextSpectral]_vars

(***************************************************************************)
(* guardCellManager.                                                       *)
(*                                                                         *)
(* The header declares Init and the ten width vectors, all constructed as  *)
(* the zero vector.  The body of Init is modelled from the design          *)
(* description of the guard-cell planner: each width is the largest        *)
(* requirement among the features that need halo data at that stage,       *)
(* never negative; in safe mode every exchange width is the allocated one. *)
(***************************************************************************)
Axes == 1..3

Max(a, b) == IF a >= b THEN a ELSE b
Min(a, b) == IF a <= b THEN a ELSE b

\* the largest element of a non-empty set of integers
MaxOf(S) == CHOOSE x \in S : \A y \in S : y <= x

\* int / int of C++: the quotient truncated towards zero
CDiv(a, b) == IF a >= 0 THEN a \div b ELSE -((-a) \div b)

\* a width is never negative
Clamp(n) == IF n < 0 THEN 0 ELSE n

\* (a variant with % in the place of /)
OrderCellsRemainder(order) == order % 2

\* the cells a stencil of the given order reaches: order / 2
OrderCells(order) == CDiv(order, 2)

\* the order of the finite-difference Maxwell solvers
FDOrder == 2
\* the cells the moving window shifts the fine grid by
MovingWindowShift == 2

\* the increment of subcycling: on a refined level the particles are pushed
\* twice between two exchanges
SubcyclingCells(o) == IF o.max_level > 0 /\ o.do_subcycling THEN 1 ELSE 0

\* the increment of the NCI corrector: its stencil, along the last axis
NCICells(o, a) == IF o.do_fdtd_nci_corr /\ a = 3 THEN o.nci_corr_stencil ELSE 0

\* the extra cell of a nodal auxiliary grid over a staggered field solver
ExtraCells(o) == IF o.aux_is_nodal /\ ~o.do_nodal THEN 1 ELSE 0

\* the overlap the spectral solver needs along the axis a
SpectralCells(o, a) == << o.nox_fft, o.noy_fft, o.noz_fft >>[a]

\* the cells the field solver needs along the axis a
SolverCells(o, a) == IF o.use_psatd THEN SpectralCells(o, a) ELSE OrderCells(FDOrder)

\* the cells the particle stencils (deposition, gather) need along the axis a
ParticleCells(o, a) == OrderCells(o.nox) + SubcyclingCells(o) + NCICells(o, a)

\* the requirements of the features that need allocated guard cells of E, B,
\* J and rho along the axis a
AllocRequirements(o, a) ==
    { ParticleCells(o, a) + ExtraCells(o), SolverCells(o, a) }
      \cup (IF o.do_moving_window THEN { MovingWindowShift } ELSE {})

\* the same for the scalar field F, which no particle stencil reads
AllocRequirementsF(o, a) ==
    { SolverCells(o, a) }
      \cup (IF o.do_moving_window THEN { MovingWindowShift } ELSE {})

\* (a variant that exchanges what the stage needs, allocated or not)
ExchangeWidthUnbounded(safe, alloc, needed) == IF safe THEN alloc ELSE Clamp(needed)

\* the width exchanged at a stage: all that is allocated in safe mode, else
\* what the stage needs, which cannot be more than what is allocated
ExchangeWidth(safe, alloc, needed) ==
    IF safe THEN alloc ELSE Min(alloc, Clamp(needed))

\* the ten width vectors Init computes from the options o
Plan(o) ==
    LET alloc  == [a \in Axes |-> Clamp(MaxOf(AllocRequirements(o, a)))]
        allocF == [a \in Axes |-> Clamp(MaxOf(AllocRequirementsF(o, a)))]
        safe   == o.safe_guard_cells
        solver == [a \in Axes |-> ExchangeWidth(safe, alloc[a], SolverCells(o, a))]
        gather == [a \in Axes |->
                      ExchangeWidth(safe, alloc[a],
                          Max(solver[a], ParticleCells(o, a) + ExtraCells(o)))]
    IN  [ng_alloc_EB     |-> alloc,
         ng_alloc_J      |-> alloc,
         ng_alloc_Rho    |-> alloc,
         ng_alloc_F      |-> allocF,
         ng_FieldSolver  |-> solver,
         ng_FieldSolverF |-> [a \in Axes |->
                                 ExchangeWidth(safe, allocF[a], SolverCells(o, a))],
         ng_FieldGather  |-> gather,
         ng_UpdateAux    |-> [a \in Axes |->
                                 ExchangeWidth(safe, alloc[a], gather[a] + ExtraCells(o))],
         ng_MovingWindow |-> [a \in Axes |->
                                 ExchangeWidth(safe, alloc[a],
                                     IF o.do_moving_window /\ a = o.moving_window_dir + 1
                                     THEN MovingWindowShift ELSE 0)],
         ng_Extra        |-> [a \in Axes |-> ExtraCells(o)]]

\* the configurations Init is called with
Orders == {1, 2, 3}
SpectralOrders == { << 2, 2, 2 >>, << 8, 4, 16 >> }

Options ==
    { [do_subcycling |-> sub, do_fdtd_nci_corr |-> nci, do_nodal |-> nodal,
       do_moving_window |-> mw, aux_is_nodal |-> aux, moving_window_dir |-> dir,
       nox |-> nox, nox_fft |-> fft[1], noy_fft |-> fft[2], noz_fft |-> fft[3],
       nci_corr_stencil |-> 5, maxwell_fdtd_solver_id |-> id, max_level |-> lev,
       v_galilean |-> << Zero, Zero, Zero >>, safe_guard_cells |-> safe,
       use_psatd |-> psatd] :
      sub \in BOOLEAN, nci \in BOOLEAN, nodal \in BOOLEAN, mw \in BOOLEAN,
      aux \in BOOLEAN, dir \in {0, 2}, nox \in Orders, fft \in SpectralOrders,
      id \in {0, 1}, lev \in {0, 1}, safe \in BOOLEAN, psatd \in BOOLEAN }

\* The state after the construction of the manager.
InitGuardCells ==
    /\ NodalUnused
    /\ RestrictionUnused
    /\ SpectralUnused
    /\ ng_alloc_EB = TheZeroVector
    /\ ng_alloc_J = TheZeroVector
    /\ ng_alloc_Rho = TheZeroVector
    /\ ng_alloc_F = TheZeroVector
    /\ ng_FieldSolver = TheZeroVector
    /\ ng_FieldSolverF = TheZeroVector
    /\ ng_FieldGather = TheZeroVector
    /\ ng_UpdateAux = TheZeroVector
    /\ ng_MovingWindow = TheZeroVector
    /\ ng_Extra = TheZeroVector
    /\ options \in Options
    /\ planned = FALSE
    /\ PhotonsUnused

guardCellManager_Init ==
    /\ ~planned
    /\ LET w == Plan(options)
       IN  /\ ng_alloc_EB' = w.ng_alloc_EB
           /\ ng_alloc_J' = w.ng_alloc_J
           /\ ng_alloc_Rho' = w.ng_alloc_Rho
           /\ ng_alloc_F' = w.ng_alloc_F
           /\ ng_FieldSolver' = w.ng_FieldSolver
           /\ ng_FieldSolverF' = w.ng_FieldSolverF
           /\ ng_FieldGather' = w.ng_FieldGather
           /\ ng_UpdateAux' = w.ng_UpdateAux
           /\ ng_MovingWindow' = w.ng_MovingWindow
           /\ ng_Extra' = w.ng_Extra
    /\ planned' = TRUE
    /\ UNCHANGED << options, nodalVars, restrictVars, spectralVars, photonVars >>

NextGuardCells == guardCellManager_Init

SpecGuardCells == InitGuardCells /\ [][NextGuardCells]_vars

(***************************************************************************)
(* cleanLowEnergyPhotons.                                                  *)
(*                                                                         *)
(* A particle tile is [id, ux, uy, uz]: the ids of the array of structs    *)
(* and the momentum components of the struct of arrays, indexed from 0.    *)
(***************************************************************************)
\* the largest number of particles of a tile
MaxParticles == 3

RLt(a, b) == a[1] * b[2] < b[1] * a[2]

\* PhysConst::m_e * PhysConst::c, a positive constant of WarpXConst.H; the
\* value here stands for it
me_c == Rat(1, 2)

\* the square of the photon energy
phot_energy2(ux, uy, uz) ==
    RMul(RMul(RAdd(RAdd(RMul(ux, ux), RMul(uy, uy)), RMul(uz, uz)), me_c), me_c)

\* the square of the energy threshold
energy_threshold2 == RMul(energy_threshold, energy_threshold)

\* the momenta of the particles of a tile
Momenta ==
    { << Zero, Zero, Zero >>, << Zero, Zero, Rat(2, 1) >>,
      << Rat(3, 1), Rat(4, 1), Zero >> }

Thresholds == { Zero, One, Rat(2, 1), Rat(-2, 1) }

\* the tiles of n particles, with the ids 1 .. n
Tiles(n) ==
    { [id |-> [q \in 0 .. (n - 1) |-> q + 1],
       ux |-> [q \in 0 .. (n - 1) |-> u[q][1]],
       uy |-> [q \in 0 .. (n - 1) |-> u[q][2]],
       uz |-> [q \in 0 .. (n - 1) |-> u[q][3]]] :
      u \in [0 .. (n - 1) -> Momenta] }

\* The state when cleanLowEnergyPhotons is called: num_added photons were
\* added to a tile of old_size particles, which may hold more after them.
InitPhotons ==
    /\ NodalUnused
    /\ RestrictionUnused
    /\ SpectralUnused
    /\ GuardCellsUnused
    /\ \E n \in 1 .. MaxParticles :
          /\ ptile \in Tiles(n)
          /\ old_size \in 0 .. n
          /\ num_added \in 0 .. (n - old_size)
    /\ ptile_in = ptile
    /\ energy_threshold \in Thresholds
    /\ ip_done = {}

\* One iteration of the ParallelFor: the lambda at the index ip, on the
\* pointers pp, p_ux, p_uy, p_uz, each offset by old_size.
ParallelForBody(ip) ==
    LET q  == old_size + ip
        ux == ptile.ux[q]
        uy == ptile.uy[q]
        uz == ptile.uz[q]
    IN  /\ ip \in 0 .. (num_added - 1)
        /\ ip \notin ip_done
        /\ ptile' = IF RLt(phot_energy2(ux, uy, uz), energy_threshold2)
                        THEN [ptile EXCEPT !.id[q] = -1]
                        ELSE ptile
        /\ ip_done' = ip_done \cup {ip}
        /\ UNCHANGED << ptile_in, old_size, num_added, energy_threshold,
                        nodalVars, restrictVars, spectralVars, guardVars >>

NextPhotons == \E ip \in 0 .. (MaxParticles - 1) : ParallelForBody(ip)

SpecPhotons == InitPhotons /\ [][NextPhotons]_vars

(***************************************************************************)
(* Properties of CartesianNodalAlgorithm (checked under SpecNodal).        *)
(***************************************************************************)
Two == Rat(2, 1)

\* the derivative of the other direction along the same axis
Partner(fn) ==
    CASE fn = "UpwardDx"   -> "DownwardDx"
      [] fn = "DownwardDx" -> "UpwardDx"
      [] fn = "UpwardDy"   -> "DownwardDy"
      [] fn = "DownwardDy" -> "UpwardDy"
      [] fn = "UpwardDz"   -> "DownwardDz"
      [] fn = "DownwardDz" -> "UpwardDz"

\* the unit step along axis a (1, 2, 3) of the array
Step(a) == [b \in 1..3 |-> IF b = a THEN 1 ELSE 0]
Plus(c, a)  == << c[1] + Step(a)[1], c[2] + Step(a)[2], c[3] + Step(a)[3] >>
Minus(c, a) == << c[1] - Step(a)[1], c[2] - Step(a)[2], c[3] - Step(a)[3] >>

RetIdx == << ret.i, ret.j, ret.k >>

\* the physical axis (1 = x, 2 = y, 3 = z) a derivative is taken along
AxisOf(fn) ==
    CASE fn \in {"UpwardDx", "DownwardDx"} -> 1
      [] fn \in {"UpwardDy", "DownwardDy"} -> 2
      [] fn \in {"UpwardDz", "DownwardDz"} -> 3

\* C1: whatever the field, the coefficient table and the index, the value an
\* upward derivative returns is the value the downward derivative of the same
\* axis returns for the same arguments, and conversely.
C1_UpwardEqualsDownward ==
    ret # NoRet => ret.val = Derivative(Partner(ret.fn), ret.i, ret.j, ret.k)

C1_Witness ==
    /\ ret # NoRet
    /\ ret.fn = "DownwardDz"
    /\ ret.val # Zero
    /\ ~coefs_ready

\* C2: in 3-D, with the tables initialised, the derivative along an axis at a
\* cell is (F[next cell] - F[previous cell]) / (2 * cell size) along that axis;
\* for a field that is 1 in one cell c and 0 elsewhere the x-derivative is
\* 1/(2 dx) at c - 1, -1/(2 dx) at c + 1 and 0 at every other cell, c included.
C2_CentralDifference3D ==
    (dim = "3D" /\ coefs_ready /\ ret # NoRet) =>
        LET a  == AxisOf(ret.fn)
            dl == cell_size[a]
        IN  /\ ret.val = RDiv(RSub(F[Plus(RetIdx, a)], F[Minus(RetIdx, a)]),
                              RMul(Two, dl))
            /\ \A c \in Valid(dim) :
                  (F = DeltaField(dim, c) /\ a = 1) =>
                      ret.val = IF RetIdx = Minus(c, 1)
                                   THEN RDiv(One, RMul(Two, dl))
                                ELSE IF RetIdx = Plus(c, 1)
                                   THEN RNeg(RDiv(One, RMul(Two, dl)))
                                ELSE Zero

C2_Witness ==
    /\ dim = "3D" /\ coefs_ready /\ ret # NoRet
    /\ F = DeltaField(dim, <<1, 1, 1>>)
    /\ ret.fn = "UpwardDx"
    /\ RetIdx = <<0, 1, 1>>
    /\ ret.val = RDiv(One, RMul(Two, cell_size[1]))
    /\ ret.val # Zero

\* C3: in the XZ build the derivative along y is zero for every field and
\* index, and the derivative along z is the central difference along the
\* second array index, 0.5 * inv_dz * (F(i,j+1,k) - F(i,j-1,k)).
C3_ReducedDimension ==
    (dim = "XZ" /\ ret # NoRet) =>
        /\ AxisOf(ret.fn) = 2 => ret.val = Zero
        /\ AxisOf(ret.fn) = 3 =>
              ret.val = RMul(Half, RMul(stencil_coefs_z[1],
                             RSub(F[<<ret.i, ret.j + 1, ret.k>>],
                                  F[<<ret.i, ret.j - 1, ret.k>>])))

C3_Witness ==
    /\ dim = "XZ" /\ ret # NoRet
    /\ ret.fn = "UpwardDy"
    /\ F = CubicField(dim)
    /\ F[<<ret.i, ret.j + 1, ret.k>>] # F[<<ret.i, ret.j - 1, ret.k>>]
    /\ Len(stencil_coefs_y) = 0
    /\ ret.val = Zero

\* C4: for F(x) = x^2 sampled at x = i * dx, with the tables initialised, the
\* derivative along x at a valid cell i is 2 * (i * dx).
C4_ExactOnQuadratic ==
    (coefs_ready /\ ret # NoRet /\ AxisOf(ret.fn) = 1
        /\ F = QuadField(dim, cell_size)) =>
        ret.val = RMul(Two, RMul(Rat(ret.i, 1), cell_size[1]))

C4_Witness ==
    /\ coefs_ready /\ ret # NoRet
    /\ ret.fn = "UpwardDx"
    /\ F = QuadField(dim, cell_size)
    /\ ret.i = 2
    /\ ret.val = RMul(Rat(4, 1), cell_size[1])

\* C5: once InitializeStencilCoefficients has run, each table has exactly one
\* entry, the inverse of the cell size of its own axis, whatever it held before.
C5_TablesAfterInit ==
    coefs_ready =>
        /\ Len(stencil_coefs_x) = 1
        /\ Len(stencil_coefs_y) = 1
        /\ Len(stencil_coefs_z) = 1
        /\ RMul(stencil_coefs_x[1], cell_size[1]) = One
        /\ RMul(stencil_coefs_y[1], cell_size[2]) = One
        /\ RMul(stencil_coefs_z[1], cell_size[3]) = One

C5_Witness ==
    /\ coefs_ready
    /\ cell_size = << Rat(1, 2), Rat(1, 4), Rat(2, 1) >>
    /\ stencil_coefs_x = << Rat(2, 1) >>
    /\ stencil_coefs_y = << Rat(4, 1) >>
    /\ stencil_coefs_z = << Rat(1, 2) >>

\* the array index (1, 2, 3) a derivative is taken along, 0 when the build
\* has no extent along its axis
IndexOf(fn) ==
    CASE AxisOf(fn) = 1 -> 1
      [] AxisOf(fn) = 2 -> IF dim = "3D" THEN 2 ELSE 0
      [] AxisOf(fn) = 3 -> IF dim = "3D" THEN 3 ELSE 2

\* the two cells one step away from c along the array index a
Neighbours(c, a) == IF a = 0 THEN {} ELSE { Plus(c, a), Minus(c, a) }

\* the field A with another value in the cell p
Perturbed(A, p) == [A EXCEPT ![p] = RAdd(@, One)]

\* C18: the value a derivative returns at (i,j,k) depends on the field at the
\* two cells one step away along its axis and at no other cell, (i,j,k)
\* included; evaluated at a valid cell, these two cells are valid or guard
\* cells of an array with one guard cell; and the call changes neither the
\* field nor a coefficient table.
C18_ReadsTwoNeighbours ==
    /\ [](ret # NoRet =>
            LET nb == Neighbours(RetIdx, IndexOf(ret.fn))
            IN  /\ nb \subseteq Box(dim)
                /\ DOMAIN F = Box(dim)
                /\ \A p \in Box(dim) :
                      (p \in nb) #
                        (DerivativeOn(Perturbed(F, p), ret.fn, ret.i, ret.j, ret.k)
                            = ret.val))
    /\ [][ret' # ret =>
              /\ F' = F
              /\ stencil_coefs_x' = stencil_coefs_x
              /\ stencil_coefs_y' = stencil_coefs_y
              /\ stencil_coefs_z' = stencil_coefs_z]_vars

C18_Witness ==
    /\ ret # NoRet
    /\ dim = "XZ"
    /\ ret.fn = "UpwardDz"
    /\ RetIdx = << NCell - 1, NCell - 1, 0 >>
    /\ <<NCell - 1, NCell, 0>> \in Neighbours(RetIdx, IndexOf(ret.fn))
    /\ F = CubicField(dim)
    /\ ret.val # Zero

(***************************************************************************)
(* Properties of InterpolateDensityFineToCoarse (checked under             *)
(* SpecRestrict).                                                          *)
(***************************************************************************)
\* the invocation of the coarse cell c has stored component m
Written(c, m) == pc[c] > m

\* the coarse element (i,j,k,m) of the invocation c = (i,j,k)
Elem(c, m) == <<c[1], c[2], c[3], m>>

\* the fine cell coincident with the coarse cell c (ratio 2)
FineOf(c) == <<2 * c[1], 2 * c[2], 2 * c[3]>>

\* the offsets of the stencil around the coincident fine cell
Offsets(sd) ==
    {-1, 0, 1} \X {-1, 0, 1} \X (IF sd = 2 THEN {0} ELSE {-1, 0, 1})

Shift(q, o) == <<q[1] + o[1], q[2] + o[2], q[3] + o[3]>>

\* the number of axes along which the offset o is not zero
Distance(o) == Abs(o[1]) + Abs(o[2]) + Abs(o[3])

\* the whole stencil of the coarse cell c lies inside the fine array
Interior(c) ==
    \A o \in Offsets(spacedim) :
        LET q == Shift(FineOf(c), o) IN Contains(m_fine, q[1], q[2], q[3])

\* component m of the fine array has the value v in every cell
UniformComponent(m, v) ==
    \A e \in DOMAIN m_fine.p : e[4] = m => m_fine.p[e] = v

Pow2(n) == 2 ^ n

\* the value operator() computes for the cell c and the component m from the
\* fine array A
Restricted(A, c, m) ==
    StencilValue(spacedim, A, FineOf(c)[1], FineOf(c)[2], FineOf(c)[3], m)

\* C6: with a fine component that is v in every cell, every coarse cell whose
\* whole stencil lies inside the fine array receives v, in 2-D and in 3-D.
C6_ConstantPreserved ==
    \A c \in DOMAIN pc : \A m \in Comps :
        LET v == m_fine.p[Elem(FineOf(c), m)]
        IN  (Written(c, m) /\ Interior(c) /\ UniformComponent(m, v)) =>
                m_coarse[Elem(c, m)] = v

C6_Witness ==
    /\ spacedim = 3
    /\ \E c \in DOMAIN pc :
          /\ Written(c, 1)
          /\ Interior(c)
          /\ UniformComponent(1, Rat(5, 1))
          /\ m_coarse[Elem(c, 1)] = Rat(5, 1)

\* the fine value at the cell q, zero outside the fine array
Padded(A, q, m) ==
    IF Contains(A, q[1], q[2], q[3]) THEN A.p[Elem(q, m)] ELSE Zero

\* 1/4 g(-1) + 1/2 g(0) + 1/4 g(1): the one-dimensional full weighting
Along(g(_)) ==
    RAdd(RAdd(RMul(Quarter, g(-1)), RMul(Half, g(0))), RMul(Quarter, g(1)))

\* the full weighting applied along every axis of the build around the fine
\* cell q: the cell q + o has the weight 2^-(d + Distance(o))
TensorValue(A, q, m) ==
    Along(LAMBDA a :
        Along(LAMBDA b :
            IF spacedim = 2
            THEN Padded(A, Shift(q, <<a, b, 0>>), m)
            ELSE Along(LAMBDA c : Padded(A, Shift(q, <<a, b, c>>), m))))

\* C7 (as amended): in d dimensions the coincident fine cell has the weight
\* 2^-d and a stencil cell that differs from it along n axes has the weight
\* 2^-(d+n): 2^-(d+1) for the first-neighbour (face) shell, 2^-(d+2) for the
\* next one, 2^-(d+3) for the corners in 3-D; that is, the stencil is the
\* one-dimensional weighting (1/4, 1/2, 1/4) applied along every axis.
C7_BinomialWeights ==
    \A c \in DOMAIN pc : \A m \in Comps :
        Written(c, m) =>
            m_coarse[Elem(c, m)] = TensorValue(m_fine, FineOf(c), m)

C7_Witness ==
    /\ spacedim = 3
    /\ m_fine.p = DeltaData(m_fine, <<1, 0, 0>>)
    /\ Written(<<0, 0, 0>>, 0)
    /\ m_coarse[<<0, 0, 0, 0>>] = Rat(1, 16)

\* C7 (as claimed): the coincident fine cell has the weight 2^-d and each
\* cell of the first-neighbour shell has the weight 2^(-d+1).
C7_AsClaimed ==
    \A c \in DOMAIN pc : \A m \in Comps : \A o \in Offsets(spacedim) :
        (Written(c, m) /\ m_fine.p = DeltaData(m_fine, Shift(FineOf(c), o))) =>
            /\ Distance(o) = 0 => m_coarse[Elem(c, m)] = Rat(1, Pow2(spacedim))
            /\ Distance(o) = 1 => m_coarse[Elem(c, m)] = Rat(2, Pow2(spacedim))

\* the fine array on a box one cell wider on every side, zero in the new cells
ZeroExtended(A) ==
    LET b == <<A.begin[1] - 1, A.begin[2] - 1, A.begin[3] - 1>>
        e == <<A.end[1] + 1, A.end[2] + 1, A.end[3] + 1>>
    IN  [begin |-> b, end |-> e, ncomp |-> A.ncomp,
         p |-> [x \in Elements(b, e) |->
                   IF x \in DOMAIN A.p THEN A.p[x] ELSE Zero]]

\* C8: the fine array is only ever read inside its index box, a stencil point
\* outside it counts as zero, and so a fine component that is v >= 0 in every
\* cell gives every coarse cell, boundary cells included, a value in [0, v].
C8_OutsideIsZero ==
    /\ fine_reads \subseteq DOMAIN m_fine.p
    /\ \A c \in DOMAIN pc : \A m \in Comps :
          Written(c, m) =>
              /\ m_coarse[Elem(c, m)] = Restricted(ZeroExtended(m_fine), c, m)
              /\ LET v == m_fine.p[Elem(FineOf(c), m)]
                 IN  (UniformComponent(m, v) /\ RLe(Zero, v)) =>
                         /\ RLe(Zero, m_coarse[Elem(c, m)])
                         /\ RLe(m_coarse[Elem(c, m)], v)

C8_Witness ==
    \E c \in DOMAIN pc :
        /\ Written(c, 0)
        /\ ~Interior(c)
        /\ UniformComponent(0, Rat(5, 1))
        /\ m_coarse[Elem(c, 0)] # Rat(5, 1)
        /\ m_coarse[Elem(c, 0)] # Zero
        /\ fine_reads # {}

\* C9: the coarse values of a * f1 + b * f2 are a times those of f1 plus b
\* times those of f2, at every coarse cell and component, boundary cells
\* included.
C9_Linear ==
    \A c \in DOMAIN pc : \A m \in Comps :
        Written(c, m) =>
            m_coarse[Elem(c, m)] =
                RAdd(RMul(lin.a, Restricted([m_fine EXCEPT !.p = lin.f1], c, m)),
                     RMul(lin.b, Restricted([m_fine EXCEPT !.p = lin.f2], c, m)))

C9_Witness ==
    \E c \in DOMAIN pc :
        /\ Written(c, 1)
        /\ ~Interior(c)
        /\ lin.a = Rat(2, 1) /\ lin.b = Rat(-3, 1)
        /\ lin.f1 = GenericData(m_fine)
        /\ Restricted([m_fine EXCEPT !.p = lin.f2], c, 1) # Zero
        /\ m_coarse[Elem(c, 1)] # Zero

\* the kernel has finished: every invocation has run its loop to the end
AllDone == \A c \in DOMAIN pc : pc[c] = m_number_of_components

\* C10: whatever the order in which the steps of the invocations are taken,
\* each coarse element depends on the fine array and on its own invocation
\* only: an element whose invocation has stored it holds the restricted value,
\* whatever the coarse array held, and no other invocation has touched an
\* element not yet stored, so the coarse array of the finished kernel is the
\* same for every interleaving.
C10_Independent ==
    \A c \in DOMAIN pc : \A m \in Comps :
        m_coarse[Elem(c, m)] =
            IF Written(c, m) THEN Restricted(m_fine, c, m) ELSE Stale

C10_Witness ==
    /\ AllDone
    /\ m_number_of_components = 2
    /\ spacedim = 3
    /\ \E c \in DOMAIN pc : m_coarse[Elem(c, 1)] \notin {Stale, Zero}

\* the step is one iteration of the invocation c: it stores component m
StepOf(c, m) ==
    /\ pc[c] = m
    /\ pc' = [pc EXCEPT ![c] = m + 1]

\* C17: a step of the invocation operator()(i,j,k) stores one element
\* (i,j,k,m) with 0 <= m < number_of_components and changes no other element
\* of the coarse array; no invocation ever stores a component m >=
\* number_of_components, so those keep what the coarse array held; and the
\* fine array is never modified.  In the 2-D and in the 3-D variant.
C17_WritesOwnElementsOnly ==
    /\ [](/\ m_fine = args.fine
          /\ \A c \in DOMAIN pc : \A m \in Comps :
                /\ pc[c] <= m_number_of_components
                /\ m >= m_number_of_components => m_coarse[Elem(c, m)] = args.coarse[Elem(c, m)])
    /\ [][\E c \in DOMAIN pc : \E m \in 0 .. (m_number_of_components - 1) :
              /\ StepOf(c, m)
              /\ DOMAIN m_coarse' = DOMAIN m_coarse
              /\ \A e \in DOMAIN m_coarse :
                    e # Elem(c, m) => m_coarse'[e] = m_coarse[e]
              /\ m_fine' = m_fine]_vars

C17_Witness ==
    /\ spacedim = 2
    /\ m_number_of_components = 1
    /\ AllDone
    /\ \A c \in DOMAIN pc :
          /\ m_coarse[Elem(c, 0)] # args.coarse[Elem(c, 0)]
          /\ m_coarse[Elem(c, 1)] = args.coarse[Elem(c, 1)]

(***************************************************************************)
(* Properties of the construction (checked under SpecConstruct).           *)
(***************************************************************************)
\* C11: an operator constructed with a refinement ratio other than 2 never
\* runs operator(): the run ends in the constructor, no invocation stores a
\* component and the coarse array keeps the values it was passed with.
C11_UnsupportedRatioRejected ==
    args.refinement_ratio # 2 =>
        /\ \A c \in DOMAIN pc : pc[c] = 0
        /\ run # "constructing" => m_coarse = args.coarse

(***************************************************************************)
(* Properties of PsatdAlgorithmRZ (checked under SpecSpectral).            *)
(***************************************************************************)
\* the five tables
Tables == << C_coef, S_ck_coef, X1_coef, X2_coef, X3_coef >>

\* the five tables as computed from the field data f
TablesFrom(f) ==
    << CoefficientTable("C", modified_kz_vec, f, dt),
       CoefficientTable("S_ck", modified_kz_vec, f, dt),
       CoefficientTable("X1", modified_kz_vec, f, dt),
       CoefficientTable("X2", modified_kz_vec, f, dt),
       CoefficientTable("X3", modified_kz_vec, f, dt) >>

\* C12: the algorithm is Uninitialized until the first call of
\* InitializeSpectralCoefficients and CoefficientsReady from then on, and
\* after any further call, with the same or with another field data, the
\* tables C, S_ck, X1, X2, X3 are those the first call computed.
C12_InitializedOnce ==
    /\ coefficients_initialized <=> init_calls # << >>
    /\ init_calls # << >> => Tables = TablesFrom(init_calls[1])

C12_Witness ==
    /\ Len(init_calls) = 2
    /\ init_calls[1] # init_calls[2]
    /\ TablesFrom(init_calls[1]) # TablesFrom(init_calls[2])
    /\ coefficients_initialized
    /\ Tables = TablesFrom(init_calls[1])

\* C13: once the coefficients are initialised, no call of pushSpectralFields,
\* getRequiredNumberOfFields, ComputeSpectralDivE or
\* InitializeSpectralCoefficients clears the flag or changes a table or dt.
C13_ReadOnlyWhenReady ==
    [][coefficients_initialized =>
           /\ coefficients_initialized'
           /\ Tables' = Tables
           /\ dt' = dt]_vars

C13_Witness ==
    /\ coefficients_initialized
    /\ Len(init_calls) = 2
    /\ init_calls[1] # init_calls[2]
    /\ \A f \in FieldDatas : field_data[f] > 0
    /\ divE # << >>
    /\ sret = [fn |-> "getRequiredNumberOfFields", val |-> n_fields]

(***************************************************************************)
(* Properties of guardCellManager (checked under SpecGuardCells).          *)
(***************************************************************************)
WidthNames ==
    { "ng_alloc_EB", "ng_alloc_J", "ng_alloc_Rho", "ng_alloc_F", "ng_FieldSolver",
      "ng_FieldSolverF", "ng_FieldGather", "ng_UpdateAux", "ng_MovingWindow",
      "ng_Extra" }

\* the width vectors the manager holds
Widths ==
    [ng_alloc_EB     |-> ng_alloc_EB,
     ng_alloc_J      |-> ng_alloc_J,
     ng_alloc_Rho    |-> ng_alloc_Rho,
     ng_alloc_F      |-> ng_alloc_F,
     ng_FieldSolver  |-> ng_FieldSolver,
     ng_FieldSolverF |-> ng_FieldSolverF,
     ng_FieldGather  |-> ng_FieldGather,
     ng_UpdateAux    |-> ng_UpdateAux,
     ng_MovingWindow |-> ng_MovingWindow,
     ng_Extra        |-> ng_Extra]

\* every component of every width of v is at most that of w
AllLe(v, w) == \A n \in WidthNames : \A a \in Axes : v[n][a] <= w[n][a]

WithSafe(o, b) == [o EXCEPT !.safe_guard_cells = b]

\* C15: with every other option fixed, each component of each width Init
\* produces with safe_guard_cells = true is >= the one it produces with
\* safe_guard_cells = false.
C15_SafeIsWider ==
    planned =>
        /\ Widths = Plan(options)
        /\ AllLe(IF options.safe_guard_cells
                    THEN Plan(WithSafe(options, FALSE)) ELSE Widths,
                 IF options.safe_guard_cells
                    THEN Widths ELSE Plan(WithSafe(options, TRUE)))

C15_Witness ==
    /\ planned
    /\ options.safe_guard_cells
    /\ ~options.use_psatd
    /\ \E a \in Axes :
          /\ ng_FieldSolver[a] > Plan(WithSafe(options, FALSE)).ng_FieldSolver[a]
          /\ Plan(WithSafe(options, FALSE)).ng_FieldSolver[a] > 0

\* the options whose value is an order
OrderOptions == { "nox", "nox_fft", "noy_fft", "noz_fft" }

\* the options o with the orders of P doubled
Doubled(o, P) == [f \in DOMAIN o |-> IF f \in P THEN 2 * o[f] ELSE o[f]]

\* C16: with every other option fixed, doubling an order (one of them, or
\* several at once) decreases no component of any width Init produces.
C16_MonotoneInOrder ==
    planned =>
        \A P \in SUBSET OrderOptions : AllLe(Widths, Plan(Doubled(options, P)))

C16_Witness ==
    /\ planned
    /\ ~options.safe_guard_cells
    /\ options.nox = 3
    /\ \E a \in Axes :
          Plan(Doubled(options, {"nox"})).ng_FieldGather[a] > ng_FieldGather[a]

(***************************************************************************)
(* Properties of cleanLowEnergyPhotons (checked under SpecPhotons).        *)
(***************************************************************************)
\* the non-negative rational whose square is s (the momenta drawn have one)
RSqrt(s) == CHOOSE r \in { Rat(n, 1) : n \in 0 .. 8 } : RMul(r, r) = s

\* the energy of the particle q of the tile t: |u| * m_e * c
Energy(t, q) ==
    RMul(RSqrt(RAdd(RAdd(RMul(t.ux[q], t.ux[q]), RMul(t.uy[q], t.uy[q])),
                    RMul(t.uz[q], t.uz[q]))), me_c)

\* the iteration of the particle q has run
Cleaned(q) ==
    /\ q >= old_size
    /\ q < old_size + num_added
    /\ (q - old_size) \in ip_done

\* C19: the id is -1 for exactly the photons of index in [old_size,
\* old_size + num_added) whose energy is below energy_threshold (once their
\* iteration has run); every other id and every momentum is as it was.
C19_CleansExactlyLowEnergy ==
    /\ ptile.ux = ptile_in.ux
    /\ ptile.uy = ptile_in.uy
    /\ ptile.uz = ptile_in.uz
    /\ \A q \in DOMAIN ptile.id :
          ptile.id[q] = IF Cleaned(q) /\ RLt(Energy(ptile_in, q), energy_threshold)
                           THEN -1 ELSE ptile_in.id[q]

=============================================================================
